---- MODULE Spec2Model ----
(***************************************************************************)
(* Model of src/app.py: the subchapter catalog built from an S3 listing    *)
(* and the per-session selection / load / chat controller that the         *)
(* Streamlit script implements on st.session_state.                        *)
(*                                                                         *)
(* Strings that the code takes apart (object keys, display names) are      *)
(* sequences of one-character strings; strings the code only passes on     *)
(* (file text, prompts, replies) are TLA+ strings.                         *)
(***************************************************************************)
EXTENDS Integers, Sequences, FiniteSets, TLC

VARIABLES
    listing,          \* what the bucket answers to list_objects_v2: pages and a failing page
    list_calls,       \* number of list_objects_v2 calls made so far
    catalog_cache,    \* st.cache_data memo of get_available_subchapters_from_s3
    content_cache,    \* st.cache_data memo of load_subchapter_content_from_s3, by object key
    fetch_calls,      \* object keys for which get_object has been called, in call order
    next_handle,      \* identity of the next chat session object start_chat creates
    gateway_calls,    \* send_message calls made so far: session, handle, text
    pc,               \* per session: position of the script run
    session_state,    \* per session: st.session_state
    subchapter_selector, \* per session: value of the selectbox widget
    user_prompt,      \* per session: value st.chat_input returns in the current run
    object_key_to_load,  \* per session: local of the selection-change block
    prompt_disabled,  \* per session: whether the rendered chat input is disabled
    opened,           \* per session: handles start_chat has returned, in order
    outcome           \* per session: the branch the last finished run took

vars == << listing, list_calls, catalog_cache, content_cache, fetch_calls,
           next_handle, gateway_calls, pc, session_state, subchapter_selector,
           user_prompt, object_key_to_load, prompt_disabled, opened, outcome >>

(***************************************************************************)
(* Bounds                                                                  *)
(***************************************************************************)
MaxUnits == 2       \* listed objects per bucket listing
MaxDialogue == 5    \* dialogue turns kept in one session
MaxHandles == 2     \* chat sessions opened in one run of the model
MaxBody == 5        \* characters of a generated base name

\* A Python value that may be None is a sequence of at most one element.
None == << >>
Some(x) == << x >>

(***************************************************************************)
(* Character strings                                                       *)
(***************************************************************************)
\* Unicode code points of the characters object keys are built from.
CodePoint ==
    [c \in {"a", "b", "c", "d", "f", "p", "t", "x", "_", ".", "/"} |->
        CASE c = "." -> 46 [] c = "/" -> 47 [] c = "_" -> 95
          [] c = "a" -> 97 [] c = "b" -> 98 [] c = "c" -> 99 [] c = "d" -> 100
          [] c = "f" -> 102 [] c = "p" -> 112 [] c = "t" -> 116 [] c = "x" -> 120]

\* str.split(sep) for a one-character separator: the fields between separators,
\* empty fields included; always at least one field.
RECURSIVE SplitFrom(_, _, _, _)
SplitFrom(s, sep, i, cur) ==
    IF i > Len(s) THEN << cur >>
    ELSE IF s[i] = sep THEN << cur >> \o SplitFrom(s, sep, i + 1, << >>)
    ELSE SplitFrom(s, sep, i + 1, Append(cur, s[i]))

Split(s, sep) == SplitFrom(s, sep, 1, << >>)

\* str.rfind(ch) as a 1-based index, 0 when absent.
RECURSIVE RFindFrom(_, _, _)
RFindFrom(s, ch, i) ==
    IF i = 0 THEN 0
    ELSE IF s[i] = ch THEN i
    ELSE RFindFrom(s, ch, i - 1)

RFind(s, ch) == RFindFrom(s, ch, Len(s))

\* str.endswith(suffix)
EndsWith(s, suffix) ==
    /\ Len(s) >= Len(suffix)
    /\ SubSeq(s, Len(s) - Len(suffix) + 1, Len(s)) = suffix

\* pathlib: Path(p).name, the last path component; empty and "." components
\* are dropped when the path is parsed.
PathName(p) ==
    LET comps == SelectSeq(Split(p, "/"), LAMBDA f : f # << >> /\ f # << "." >>)
    IN  IF comps = << >> THEN << >> ELSE comps[Len(comps)]

\* pathlib: Path(name).stem, the name without its last suffix; a leading or a
\* trailing dot starts no suffix.
PathStem(name) ==
    LET i == RFind(name, ".")
    IN  IF 1 < i /\ i < Len(name) THEN SubSeq(name, 1, i - 1) ELSE name

DotTxt == << ".", "t", "x", "t" >>

\* Lexicographic order of Python strings (by code point).
RECURSIVE StrLess(_, _)
StrLess(s, t) ==
    IF t = << >> THEN FALSE
    ELSE IF s = << >> THEN TRUE
    ELSE IF CodePoint[Head(s)] # CodePoint[Head(t)]
         THEN CodePoint[Head(s)] < CodePoint[Head(t)]
         ELSE StrLess(Tail(s), Tail(t))


(***************************************************************************)
(* Catalog builder: get_available_subchapters_from_s3                      *)
(***************************************************************************)
\* A Python dict is a sequence of entries [k, v] in insertion order, keys unique.
DictKeys(d) == [i \in 1..Len(d) |-> d[i].k]

DictHas(d, key) == \E i \in 1..Len(d) : d[i].k = key

\* dict.get(key): the value, or None when the key is absent.
DictGet(d, key) ==
    IF DictHas(d, key) THEN Some(d[CHOOSE i \in 1..Len(d) : d[i].k = key].v) ELSE None

\* Variant: an existing key keeps its first value.
DictSet_keeps_first(d, key, value) ==
    IF DictHas(d, key) THEN d ELSE Append(d, [k |-> key, v |-> value])

\* d[key] = value: an existing key keeps its position and takes the new value.
DictSet(d, key, value) ==
    IF DictHas(d, key)
    THEN [i \in 1..Len(d) |-> IF d[i].k = key THEN [k |-> key, v |-> value] ELSE d[i]]
    ELSE Append(d, [k |-> key, v |-> value])

\* The body of the loop over response['Contents'] for one object key: the
\* entry is recorded when the stem has three '_'-separated parts and the file
\* name ends with ".txt", and the object is skipped otherwise.
HasExpectedFormat(object_key) ==
    LET filename == PathName(object_key)
        parts    == Split(PathStem(filename), "_")
    IN  Len(parts) = 3 /\ EndsWith(filename, DotTxt)

DisplayName(object_key) == Split(PathStem(PathName(object_key)), "_")[3]

AddObject(subchapter_map, object_key) ==
    IF HasExpectedFormat(object_key)
    THEN DictSet(subchapter_map, DisplayName(object_key), object_key)
    ELSE subchapter_map

\* The loop over one response's 'Contents'.
RECURSIVE AddPage(_, _)
AddPage(subchapter_map, contents) ==
    IF contents = << >> THEN subchapter_map
    ELSE AddPage(AddObject(subchapter_map, Head(contents)), Tail(contents))

\* sorted(subchapter_map.items()): entries in ascending order of their key.
RECURSIVE InsertSorted(_, _)
InsertSorted(sorted, e) ==
    IF sorted = << >> THEN << e >>
    ELSE IF StrLess(e.k, Head(sorted).k) THEN << e >> \o sorted
    ELSE << Head(sorted) >> \o InsertSorted(Tail(sorted), e)

\* Variant: the entries are returned in insertion order.
SortedItems_insertion_order(d) == d

RECURSIVE SortedItems(_)
SortedItems(d) ==
    IF d = << >> THEN << >> ELSE InsertSorted(SortedItems(Tail(d)), Head(d))

\* Variant: the builder stops after the first page it receives.
ListFrom_one_page(l, i, subchapter_map) ==
    IF l.fail_at = i THEN [map |-> << >>, calls |-> i, failed |-> TRUE]
    ELSE [map |-> SortedItems(AddPage(subchapter_map, l.pages[i])), calls |-> i, failed |-> FALSE]

\* Variant: after a failed call the builder returns what it has parsed so far.
RECURSIVE ListFrom_partial(_, _, _)
ListFrom_partial(l, i, subchapter_map) ==
    IF l.fail_at = i THEN [map |-> SortedItems(subchapter_map), calls |-> i, failed |-> TRUE]
    ELSE LET m == AddPage(subchapter_map, l.pages[i])
         IN  IF i < Len(l.pages) THEN ListFrom_partial(l, i + 1, m)
             ELSE [map |-> SortedItems(m), calls |-> i, failed |-> FALSE]

\* The listing calls from page i on. A call to the failing page raises, and the
\* except clauses return the empty dict; a page that is not the last one is
\* truncated and is followed by the call with its continuation token.
RECURSIVE ListFrom(_, _, _)
ListFrom(l, i, subchapter_map) ==
    IF l.fail_at = i THEN [map |-> << >>, calls |-> i, failed |-> TRUE]
    ELSE LET m == AddPage(subchapter_map, l.pages[i])
         IN  IF i < Len(l.pages) THEN ListFrom(l, i + 1, m)
             ELSE [map |-> SortedItems(m), calls |-> i, failed |-> FALSE]

get_available_subchapters_from_s3(l) == ListFrom(l, 1, << >>)


(***************************************************************************)
(* Session controller: the script body on st.session_state                 *)
(***************************************************************************)
\* "-- Unterkapitel auswählen --"
PLATZHALTER_AUSWAHL ==
    << "-", "-", " ", "U", "n", "t", "e", "r", "k", "a", "p", "i", "t", "e", "l",
       " ", "a", "u", "s", "w", "ä", "h", "l", "e", "n", " ", "-", "-" >>

\* The text sent for the opening turn.
initial_user_message == "Bitte stell dich vor..."

\* Variant: the system prompt is made without the text.
SystemPrompt_without_text(selected_display_name, subchapter_content) ==
    [label |-> selected_display_name, text |-> ""]

\* The f-string of the system prompt embeds the display name and the text.
SystemPrompt(selected_display_name, subchapter_content) ==
    [label |-> selected_display_name, text |-> subchapter_content]

\* A dialogue entry {"role": ..., "content": ...}; the content is the text
\* together with the template that produced it.
Message(role, kind, about, text) ==
    [role |-> role, content |-> [kind |-> kind, about |-> about, text |-> text]]

FallbackGreeting(selected_display_name) ==
    Message("assistant", "fallback", selected_display_name, "")

ErrorMessage(e) == Message("assistant", "error", << >>, e)

\* Python truthiness of a str | None value: None and the empty string are false.
\* (Texts are TLA+ strings, object keys are character sequences.)
TruthyText(x) == x # None /\ x[1] # ""
TruthyKey(x) == x # None /\ x[1] # << >>

\* Variant: the reset leaves the dialogue in place.
reset_chat_state_keeps_messages(ss) ==
    [ss EXCEPT !.learnlm_model = None,
               !.chat_session = None,
               !.subchapter_content = None]

\* Variant: the reset leaves the content in place.
reset_chat_state_keeps_content(ss) ==
    [ss EXCEPT !.messages = << >>,
               !.learnlm_model = None,
               !.chat_session = None]

reset_chat_state(ss) ==
    [ss EXCEPT !.messages = << >>,
               !.learnlm_model = None,
               !.chat_session = None,
               !.subchapter_content = None]

\* Variant: a failure branch that only puts the selection back.
FailLoad_no_reset(ss) ==
    [ss EXCEPT !.selected_subchapter_display_name = PLATZHALTER_AUSWAHL]

\* Variant: a failure branch that resets but leaves the selection on the label.
FailLoad_keeps_selection(ss) == reset_chat_state(ss)

\* The failure branches: reset_chat_state() and the selection back to the placeholder.
FailLoad(ss) ==
    [reset_chat_state(ss) EXCEPT !.selected_subchapter_display_name = PLATZHALTER_AUSWAHL]

available_display_names(ss) == << PLATZHALTER_AUSWAHL >> \o DictKeys(ss.subchapter_map)

Options(ss) == { available_display_names(ss)[i] : i \in 1..Len(available_display_names(ss)) }

\* Variant: the chat input is never disabled.
PromptDisabled_never(ss) == FALSE

\* prompt_disabled as the script computes it before st.chat_input.
PromptDisabled(ss) ==
    \/ ss.selected_subchapter_display_name = PLATZHALTER_AUSWAHL
    \/ ss.chat_session = None


(***************************************************************************)
(* Inputs                                                                  *)
(***************************************************************************)
Sessions == {"s1"}

\* Object keys of the bucket: "a_b_c.txt", "d/b_a_c.txt", "a_b_a.txt", "a.txt".
KeyPool ==
    { << "a", "_", "b", "_", "c", ".", "t", "x", "t" >>,
      << "d", "/", "b", "_", "a", "_", "c", ".", "t", "x", "t" >>,
      << "a", "_", "b", "_", "a", ".", "t", "x", "t" >>,
      << "a", ".", "t", "x", "t" >> }

\* Generated object keys: an optional folder, a base name over {a, c, _} and
\* an optional extension.
Prefixes == { << >>, << "d", "/" >> }
Bodies == UNION { [1..n -> {"a", "c", "_"}] : n \in 0..MaxBody }
Suffixes == { << >>, DotTxt, << ".", "p", "d", "f" >> }
GenKeys == { p \o b \o x : p \in Prefixes, b \in Bodies, x \in Suffixes } \ { << >> }

\* Sequences of distinct keys of a pool, at most n long.
DistinctSeqs(pool, n) ==
    UNION { { q \in [1..m -> pool] : \A i, j \in 1..m : i # j => q[i] # q[j] } : m \in 0..n }

\* The ways a listing is delivered in two pages: the first page is truncated
\* and holds no object or the first one, the second page holds the rest; every
\* call succeeds (fail_at = 0) or the call for one of the pages fails.
Deliveries(units) ==
    LET pagings == { << SubSeq(units, 1, i), SubSeq(units, i + 1, Len(units)) >> :
                       i \in { j \in 0..1 : j <= Len(units) } }
    IN  { [pages |-> pg, fail_at |-> f] : pg \in pagings, f \in 0..2 }

Listings == { l \in UNION { Deliveries(q) : q \in DistinctSeqs(KeyPool, MaxUnits) } :
                l.fail_at <= Len(l.pages) }

\* File texts, user prompts, gateway replies and errors.
Texts == { "", "Inflation [seite: 221]" }
Prompts == { "Was ist Inflation?" }
Replies == { "Hallo!" }
GatewayError == "GatewayError"

(***************************************************************************)
(* Initial state: no script run has happened yet                           *)
(***************************************************************************)
\* Nothing is cached and the sessions of S have not run the script yet.
InitSessions(S) ==
    /\ list_calls = 0
    /\ catalog_cache = None
    /\ content_cache = << >>
    /\ fetch_calls = << >>
    /\ next_handle = 1
    /\ gateway_calls = {}
    /\ pc = [u \in S |-> "new"]
    /\ session_state = [u \in S |-> << >>]
    /\ subchapter_selector = [u \in S |-> PLATZHALTER_AUSWAHL]
    /\ user_prompt = [u \in S |-> None]
    /\ object_key_to_load = [u \in S |-> None]
    /\ prompt_disabled = [u \in S |-> TRUE]
    /\ opened = [u \in S |-> << >>]
    /\ outcome = [u \in S |-> "none"]

InitRest == InitSessions(Sessions)

\* The bucket delivers its listing in one page.
Init ==
    /\ listing \in { [pages |-> << q >>, fail_at |-> 0] : q \in DistinctSeqs(KeyPool, MaxUnits) }
    /\ InitRest

\* The bucket delivers its listing in two pages, and a listing call may fail.
InitListing ==
    /\ listing \in Listings
    /\ InitRest

\* Two browser sessions of the same process; the bucket lists one object with
\* the expected name format.
TwoSessions == {"s1", "s2"}

InitTwo ==
    /\ listing \in { [pages |-> << << k >> >>, fail_at |-> 0] :
                        k \in { x \in KeyPool : HasExpectedFormat(x) } }
    /\ InitSessions(TwoSessions)

\* One generated key, listed in one page.
InitParse ==
    /\ listing \in { [pages |-> << << k >> >>, fail_at |-> 0] : k \in GenKeys }
    /\ InitRest


(***************************************************************************)
(* Script runs                                                             *)
(***************************************************************************)
\* st.rerun() restarts the script: the selectbox returns the value it already
\* has, st.chat_input returns None, and the chat input is rendered again.
Rerun(u, ss) ==
    /\ pc' = [pc EXCEPT ![u] = "idle"]
    /\ user_prompt' = [user_prompt EXCEPT ![u] = None]
    /\ prompt_disabled' = [prompt_disabled EXCEPT ![u] = PromptDisabled(ss)]

\* Variant: the first run of every session lists the bucket again.
FirstRun_uncached(u) ==
    /\ pc[u] = "new"
    /\ LET built == get_available_subchapters_from_s3(listing)
           ss    == [messages |-> << >>,
                     selected_subchapter_display_name |-> PLATZHALTER_AUSWAHL,
                     subchapter_content |-> None,
                     learnlm_model |-> None,
                     chat_session |-> None,
                     subchapter_map |-> built.map]
       IN  /\ catalog_cache' = Some(built.map)
           /\ list_calls' = list_calls + built.calls
           /\ session_state' = [session_state EXCEPT ![u] = ss]
           /\ Rerun(u, ss)
    /\ subchapter_selector' = [subchapter_selector EXCEPT ![u] = PLATZHALTER_AUSWAHL]
    /\ outcome' = [outcome EXCEPT ![u] = "unchanged"]
    /\ UNCHANGED << listing, content_cache, fetch_calls, next_handle, gateway_calls,
                    object_key_to_load, opened >>

\* The first run of a session: the state initialisation, with the catalog taken
\* from the cache or built by listing the bucket; the selectbox shows the
\* placeholder, nothing is selected and the chat input is rendered disabled.
FirstRun(u) ==
    /\ pc[u] = "new"
    /\ LET built == get_available_subchapters_from_s3(listing)
           map   == IF catalog_cache = None THEN built.map ELSE catalog_cache[1]
           ss    == [messages |-> << >>,
                     selected_subchapter_display_name |-> PLATZHALTER_AUSWAHL,
                     subchapter_content |-> None,
                     learnlm_model |-> None,
                     chat_session |-> None,
                     subchapter_map |-> map]
       IN  /\ catalog_cache' = Some(map)
           /\ list_calls' = IF catalog_cache = None THEN list_calls + built.calls
                            ELSE list_calls
           /\ session_state' = [session_state EXCEPT ![u] = ss]
           /\ Rerun(u, ss)
    /\ subchapter_selector' = [subchapter_selector EXCEPT ![u] = PLATZHALTER_AUSWAHL]
    /\ outcome' = [outcome EXCEPT ![u] = "unchanged"]
    /\ UNCHANGED << listing, content_cache, fetch_calls, next_handle, gateway_calls,
                    object_key_to_load, opened >>

\* The top of a later run, down to the reset of the selection-change block:
\* selected_display_name is what the selectbox returns, prompt what
\* st.chat_input will return.
SelectionChange(u, selected_display_name, prompt) ==
    LET ss == session_state[u]
        previous_selection == ss.selected_subchapter_display_name
        changed == [ss EXCEPT !.selected_subchapter_display_name = selected_display_name]
    IN  IF selected_display_name # previous_selection
        THEN IF selected_display_name = PLATZHALTER_AUSWAHL
             THEN /\ session_state' = [session_state EXCEPT ![u] = reset_chat_state(changed)]
                  /\ outcome' = [outcome EXCEPT ![u] = "placeholder"]
                  /\ Rerun(u, reset_chat_state(changed))
             ELSE /\ session_state' = [session_state EXCEPT ![u] = reset_chat_state(changed)]
                  /\ outcome' = [outcome EXCEPT ![u] = "loading"]
                  /\ pc' = [pc EXCEPT ![u] = "lookup"]
                  /\ user_prompt' = [user_prompt EXCEPT ![u] = prompt]
                  /\ UNCHANGED prompt_disabled
        ELSE /\ outcome' = [outcome EXCEPT ![u] = "unchanged"]
             /\ pc' = [pc EXCEPT ![u] = "chat_input"]
             /\ user_prompt' = [user_prompt EXCEPT ![u] = prompt]
             /\ UNCHANGED << session_state, prompt_disabled >>

\* The user picks an option of the selectbox; the script runs.
UserSelects(u) ==
    /\ pc[u] = "idle"
    /\ \E label \in Options(session_state[u]) :
         /\ (label # PLATZHALTER_AUSWAHL) => next_handle <= MaxHandles
         /\ subchapter_selector' = [subchapter_selector EXCEPT ![u] = label]
         /\ SelectionChange(u, label, None)
    /\ UNCHANGED << listing, list_calls, catalog_cache, content_cache, fetch_calls,
                    next_handle, gateway_calls, object_key_to_load, opened >>

\* The dialogue turns held by all sessions together.
RECURSIVE TurnsOf(_)
TurnsOf(S) ==
    IF S = {} THEN 0
    ELSE LET u == CHOOSE x \in S : TRUE
         IN  (IF pc[u] = "new" THEN 0 ELSE Len(session_state[u].messages))
               + TurnsOf(S \ {u})

\* The user submits a text in the chat input, which the browser allows only
\* while the input is rendered enabled; the script runs with the selectbox
\* value as it is.
UserSubmits(u) ==
    /\ pc[u] = "idle"
    /\ ~prompt_disabled[u]
    /\ TurnsOf(DOMAIN pc) + 2 <= MaxDialogue
    /\ \E text \in Prompts : SelectionChange(u, subchapter_selector[u], Some(text))
    /\ UNCHANGED << listing, list_calls, catalog_cache, content_cache, fetch_calls,
                    next_handle, gateway_calls, object_key_to_load, opened,
                    subchapter_selector >>

\* object_key_to_load = subchapter_map.get(selected_display_name), and the
\* else branch of "if object_key_to_load".
Lookup(u) ==
    /\ pc[u] = "lookup"
    /\ LET ss  == session_state[u]
           key == DictGet(ss.subchapter_map, ss.selected_subchapter_display_name)
       IN  /\ object_key_to_load' = [object_key_to_load EXCEPT ![u] = key]
           /\ IF TruthyKey(key)
              THEN /\ pc' = [pc EXCEPT ![u] = "fetch"]
                   /\ UNCHANGED << session_state, outcome >>
              ELSE /\ session_state' = [session_state EXCEPT ![u] = FailLoad(ss)]
                   /\ outcome' = [outcome EXCEPT ![u] = "lookup_failed"]
                   /\ pc' = [pc EXCEPT ![u] = "chat_input"]
    /\ UNCHANGED << listing, list_calls, catalog_cache, content_cache, fetch_calls,
                    next_handle, gateway_calls, subchapter_selector, user_prompt,
                    prompt_disabled, opened >>

\* After load_subchapter_content_from_s3 has returned content: "if content"
\* and its else branch.
AfterFetch(u, content) ==
    LET ss == session_state[u]
    IN  IF TruthyText(content)
        THEN /\ session_state' = [session_state EXCEPT ![u].subchapter_content = content]
             /\ pc' = [pc EXCEPT ![u] = "init"]
             /\ UNCHANGED outcome
        ELSE /\ session_state' = [session_state EXCEPT ![u] = FailLoad(ss)]
             /\ outcome' = [outcome EXCEPT ![u] =
                              IF content = None THEN "fetch_failed" ELSE "empty_content"]
             /\ pc' = [pc EXCEPT ![u] = "chat_input"]

\* Variant: every call of load_subchapter_content_from_s3 requests the object.
Fetch_uncached(u) ==
    /\ pc[u] = "fetch"
    /\ LET object_key == object_key_to_load[u][1]
       IN  \E content \in { None } \cup { Some(t) : t \in Texts } :
             /\ content_cache' = DictSet(content_cache, object_key, content)
             /\ fetch_calls' = Append(fetch_calls, object_key)
             /\ AfterFetch(u, content)
    /\ UNCHANGED << listing, list_calls, catalog_cache, next_handle, gateway_calls,
                    subchapter_selector, user_prompt, object_key_to_load,
                    prompt_disabled, opened >>

\* load_subchapter_content_from_s3 under st.cache_data: a key seen before
\* returns the memoized value; otherwise get_object is called and the decoded
\* text, or None after an error, is returned and memoized.
Fetch(u) ==
    /\ pc[u] = "fetch"
    /\ LET object_key == object_key_to_load[u][1]
       IN  IF DictHas(content_cache, object_key)
           THEN /\ AfterFetch(u, DictGet(content_cache, object_key)[1])
                /\ UNCHANGED << content_cache, fetch_calls >>
           ELSE \E content \in { None } \cup { Some(t) : t \in Texts } :
                  /\ content_cache' = DictSet(content_cache, object_key, content)
                  /\ fetch_calls' = Append(fetch_calls, object_key)
                  /\ AfterFetch(u, content)
    /\ UNCHANGED << listing, list_calls, catalog_cache, next_handle, gateway_calls,
                    subchapter_selector, user_prompt, object_key_to_load,
                    prompt_disabled, opened >>

\* The system prompt and initialize_learnlm_model, which returns the model or,
\* after an exception, None.
InitModel(u) ==
    /\ pc[u] = "init"
    /\ LET ss == session_state[u]
           system_prompt == SystemPrompt(ss.selected_subchapter_display_name,
                                         ss.subchapter_content[1])
       IN  \E model \in { None, Some([system_instruction |-> system_prompt]) } :
             IF model # None
             THEN /\ session_state' = [session_state EXCEPT ![u].learnlm_model = model]
                  /\ pc' = [pc EXCEPT ![u] = "start"]
                  /\ UNCHANGED outcome
             ELSE /\ session_state' = [session_state EXCEPT ![u] = FailLoad(ss)]
                  /\ outcome' = [outcome EXCEPT ![u] = "model_failed"]
                  /\ pc' = [pc EXCEPT ![u] = "chat_input"]
    /\ UNCHANGED << listing, list_calls, catalog_cache, content_cache, fetch_calls,
                    next_handle, gateway_calls, subchapter_selector, user_prompt,
                    object_key_to_load, prompt_disabled, opened >>

\* Variant: start_chat hands out one chat session object kept for the process.
StartChat_shared(u) ==
    /\ pc[u] = "start"
    /\ LET ss == session_state[u]
       IN  \E ok \in BOOLEAN :
             IF ok
             THEN /\ session_state' = [session_state EXCEPT ![u].chat_session =
                        Some([id |-> 1, model |-> ss.learnlm_model[1]])]
                  /\ next_handle' = next_handle + 1
                  /\ opened' = [opened EXCEPT ![u] = Append(@, 1)]
                  /\ pc' = [pc EXCEPT ![u] = "greet"]
                  /\ UNCHANGED outcome
             ELSE /\ session_state' = [session_state EXCEPT ![u] = FailLoad(ss)]
                  /\ outcome' = [outcome EXCEPT ![u] = "chat_failed"]
                  /\ pc' = [pc EXCEPT ![u] = "chat_input"]
                  /\ UNCHANGED << next_handle, opened >>
    /\ UNCHANGED << listing, list_calls, catalog_cache, content_cache, fetch_calls,
                    gateway_calls, subchapter_selector, user_prompt,
                    object_key_to_load, prompt_disabled >>

\* learnlm_model.start_chat(history=[]): a new chat session object, or the
\* except branch of the outer try.
StartChat(u) ==
    /\ pc[u] = "start"
    /\ LET ss == session_state[u]
       IN  \E ok \in BOOLEAN :
             IF ok
             THEN /\ session_state' = [session_state EXCEPT ![u].chat_session =
                        Some([id |-> next_handle, model |-> ss.learnlm_model[1]])]
                  /\ next_handle' = next_handle + 1
                  /\ opened' = [opened EXCEPT ![u] = Append(@, next_handle)]
                  /\ pc' = [pc EXCEPT ![u] = "greet"]
                  /\ UNCHANGED outcome
             ELSE /\ session_state' = [session_state EXCEPT ![u] = FailLoad(ss)]
                  /\ outcome' = [outcome EXCEPT ![u] = "chat_failed"]
                  /\ pc' = [pc EXCEPT ![u] = "chat_input"]
                  /\ UNCHANGED << next_handle, opened >>
    /\ UNCHANGED << listing, list_calls, catalog_cache, content_cache, fetch_calls,
                    gateway_calls, subchapter_selector, user_prompt,
                    object_key_to_load, prompt_disabled >>

\* Variant: the call goes to the first chat session the session ever opened.
GatewayCall_first_handle(u, ss, text) ==
    [session |-> u, handle |-> opened[u][1], turn |-> Len(ss.messages), text |-> text]

\* A chat_session.send_message(text) call as the gateway sees it.
GatewayCall(u, ss, text) ==
    [session |-> u, handle |-> ss.chat_session[1].id, turn |-> Len(ss.messages), text |-> text]

\* Variant: a failed opening greeting is handled like a failed start_chat.
OpeningTurn_fatal(ss, r) ==
    IF r \in Replies
    THEN [ss EXCEPT !.messages = Append(@, Message("assistant", "reply", << >>, r))]
    ELSE FailLoad(ss)

\* Variant: a failed opening greeting appends nothing.
OpeningTurn_no_fallback(ss, r) ==
    IF r \in Replies
    THEN [ss EXCEPT !.messages = Append(@, Message("assistant", "reply", << >>, r))]
    ELSE ss

\* The try/except around the opening greeting: the reply r is appended, or the
\* fallback greeting when the call raised.
OpeningTurn(ss, r) ==
    IF r \in Replies
    THEN [ss EXCEPT !.messages = Append(@, Message("assistant", "reply", << >>, r))]
    ELSE [ss EXCEPT !.messages =
             Append(@, FallbackGreeting(ss.selected_subchapter_display_name))]

\* The opening greeting is requested from the new chat session; then st.rerun().
Greet(u) ==
    /\ pc[u] = "greet"
    /\ LET ss == session_state[u]
       IN  /\ gateway_calls' = gateway_calls \cup { GatewayCall(u, ss, initial_user_message) }
           /\ \E r \in Replies \cup { GatewayError } :
                /\ session_state' = [session_state EXCEPT ![u] = OpeningTurn(ss, r)]
                /\ outcome' = [outcome EXCEPT ![u] =
                                 IF r \in Replies THEN "loaded" ELSE "greeting_fallback"]
                /\ Rerun(u, OpeningTurn(ss, r))
    /\ UNCHANGED << listing, list_calls, catalog_cache, content_cache, fetch_calls,
                    next_handle, subchapter_selector, object_key_to_load, opened >>

\* The chat display and st.chat_input: a disabled input returns None; a
\* submitted prompt is appended as the user's turn.
ChatInput(u) ==
    /\ pc[u] = "chat_input"
    /\ LET ss == session_state[u]
           disabled == PromptDisabled(ss)
       IN  /\ prompt_disabled' = [prompt_disabled EXCEPT ![u] = disabled]
           /\ IF user_prompt[u] # None /\ ~disabled
              THEN /\ session_state' = [session_state EXCEPT ![u].messages =
                         Append(@, Message("user", "text", << >>, user_prompt[u][1]))]
                   /\ pc' = [pc EXCEPT ![u] = "send"]
                   /\ UNCHANGED user_prompt
              ELSE /\ pc' = [pc EXCEPT ![u] = "idle"]
                   /\ user_prompt' = [user_prompt EXCEPT ![u] = None]
                   /\ UNCHANGED session_state
    /\ UNCHANGED << listing, list_calls, catalog_cache, content_cache, fetch_calls,
                    next_handle, gateway_calls, subchapter_selector,
                    object_key_to_load, opened, outcome >>

\* Variant: a failed send_message appends nothing.
AfterSend_silent(ss, r) ==
    IF r \in Replies
    THEN [ss EXCEPT !.messages = Append(@, Message("assistant", "reply", << >>, r))]
    ELSE ss

\* Variant: a failed send_message resets the chat state.
AfterSend_teardown(ss, r) ==
    IF r \in Replies
    THEN [ss EXCEPT !.messages = Append(@, Message("assistant", "reply", << >>, r))]
    ELSE [reset_chat_state(ss) EXCEPT !.messages = << ErrorMessage(r) >>]

\* The try/except around send_message(user_prompt): the reply r is appended as
\* the assistant's turn, or the error message when the call raised.
AfterSend(ss, r) ==
    IF r \in Replies
    THEN [ss EXCEPT !.messages = Append(@, Message("assistant", "reply", << >>, r))]
    ELSE [ss EXCEPT !.messages = Append(@, ErrorMessage(r))]

\* chat_session.send_message(user_prompt), which also raises when there is no
\* chat session to call; then st.rerun().
Send(u) ==
    /\ pc[u] = "send"
    /\ LET ss == session_state[u]
       IN  IF ss.chat_session = None
           THEN /\ session_state' = [session_state EXCEPT ![u] = AfterSend(ss, "AttributeError")]
                /\ outcome' = [outcome EXCEPT ![u] = "send_failed"]
                /\ Rerun(u, AfterSend(ss, "AttributeError"))
                /\ UNCHANGED gateway_calls
           ELSE /\ gateway_calls' = gateway_calls \cup { GatewayCall(u, ss, user_prompt[u][1]) }
                /\ \E r \in Replies \cup { GatewayError } :
                     /\ session_state' = [session_state EXCEPT ![u] = AfterSend(ss, r)]
                     /\ outcome' = [outcome EXCEPT ![u] =
                                      IF r \in Replies THEN "sent" ELSE "send_failed"]
                     /\ Rerun(u, AfterSend(ss, r))
    /\ UNCHANGED << listing, list_calls, catalog_cache, content_cache, fetch_calls,
                    next_handle, subchapter_selector, object_key_to_load, opened >>

Next ==
    \E u \in DOMAIN pc :
        \/ FirstRun(u)
        \/ UserSelects(u)
        \/ UserSubmits(u)
        \/ Lookup(u)
        \/ Fetch(u)
        \/ InitModel(u)
        \/ StartChat(u)
        \/ Greet(u)
        \/ ChatInput(u)
        \/ Send(u)

Spec == Init /\ [][Next]_vars

SpecListing == InitListing /\ [][Next]_vars

SpecTwo == InitTwo /\ [][Next]_vars

SpecParse == InitParse /\ [][Next]_vars


(***************************************************************************)
(* Properties                                                              *)
(***************************************************************************)
Running(u) == pc[u] # "new"
Idle(u) == pc[u] = "idle"
Selection(u) == session_state[u].selected_subchapter_display_name
Dialogue(u) == session_state[u].messages
ContentText(u) == session_state[u].subchapter_content
ChatHandle(u) == session_state[u].chat_session
IsPrefix(a, b) == Len(a) <= Len(b) /\ SubSeq(b, 1, Len(a)) = a

\* The runs that ended in one of the failure branches of the selection-change block.
LoadFailures ==
    { "lookup_failed", "fetch_failed", "empty_content", "model_failed", "chat_failed" }

\* C1: reset before load. While a selection change is loading, the session is
\* reset before any I/O of that load: at the catalog lookup and at the fetch
\* the dialogue is empty and content, model and chat handle are absent; at the
\* model initialisation and at start_chat the dialogue is still empty and no
\* handle is held; when the opening turn is requested the dialogue is empty.
\* So no turn of the previous label is in the dialogue once loading begins.
C1_ResetBeforeLoad ==
    \A u \in Sessions :
        /\ pc[u] \in { "lookup", "fetch", "init", "start", "greet" } => Dialogue(u) = << >>
        /\ pc[u] \in { "lookup", "fetch" } =>
              /\ ContentText(u) = None
              /\ session_state[u].learnlm_model = None
              /\ ChatHandle(u) = None
        /\ pc[u] \in { "init", "start" } => ChatHandle(u) = None

\* A session that already held a dialogue (its opening turn was requested from
\* the gateway) is fetching the content of a newly selected label.
C1_Witness ==
    \E u \in Sessions :
        /\ pc[u] = "fetch"
        /\ opened[u] # << >>
        /\ \E c \in gateway_calls : c.session = u
        /\ Dialogue(u) = << >>

\* C2: between user actions the chat handle and the content text are both
\* present or both absent, and they are absent exactly when the selection is
\* the placeholder.
C2_HandleContentSelection ==
    \A u \in Sessions :
        Idle(u) =>
            /\ (ChatHandle(u) = None) <=> (ContentText(u) = None)
            /\ (ChatHandle(u) = None) <=> (Selection(u) = PLATZHALTER_AUSWAHL)

\* A load that fetched the text and then failed to initialise the model has ended.
C2_Witness ==
    \E u \in Sessions :
        /\ Idle(u)
        /\ outcome[u] = "model_failed"
        /\ subchapter_selector[u] # PLATZHALTER_AUSWAHL
        /\ ContentText(u) = None

\* C3: a selection change that fails before the opening turn (no object key,
\* fetch error or empty text, model initialisation, start_chat) ends with the
\* dialogue empty, content, model and handle absent, the selection back on the
\* placeholder and the chat input disabled.
C3_FailedLoadEndsIdle ==
    \A u \in Sessions :
        (Idle(u) /\ outcome[u] \in LoadFailures) =>
            /\ Dialogue(u) = << >>
            /\ ContentText(u) = None
            /\ session_state[u].learnlm_model = None
            /\ ChatHandle(u) = None
            /\ Selection(u) = PLATZHALTER_AUSWAHL
            /\ prompt_disabled[u]

\* A load whose start_chat failed has ended, with the selectbox still on the label.
C3_Witness ==
    \E u \in Sessions :
        /\ Idle(u)
        /\ outcome[u] = "chat_failed"
        /\ subchapter_selector[u] # PLATZHALTER_AUSWAHL
        /\ Selection(u) = PLATZHALTER_AUSWAHL

\* The last run of the session was a selection change to the selectbox's
\* label, the fetch of the label's object returned a text and no gateway call
\* of the run failed.
LoadedWithoutError(u) ==
    /\ Idle(u)
    /\ outcome[u] \in { "loaded", "empty_content" }
    /\ DictGet(content_cache, object_key_to_load[u][1])[1] # None

\* C4: successful load. When the fetch returns a text, whatever it is, and the
\* gateway opens the dialogue and returns the opening turn, the selection
\* change ends with the selection on the label, the fetched text as content, a
\* chat handle held and a dialogue of exactly the assistant's opening turn.
C4_SuccessfulLoad ==
    \A u \in Sessions :
        LoadedWithoutError(u) =>
            /\ Selection(u) = subchapter_selector[u]
            /\ ContentText(u) = DictGet(content_cache, object_key_to_load[u][1])[1]
            /\ ChatHandle(u) # None
            /\ Len(Dialogue(u)) = 1
            /\ Dialogue(u)[1].role = "assistant"
            /\ Dialogue(u)[1].content.kind = "reply"

\* C5: a failed opening turn is not fatal. The selection change still ends
\* with the handle and the content present and the selection on the label; the
\* dialogue is exactly one assistant turn, the fallback greeting for the
\* label, and the chat input is enabled.
C5_OpeningFailureNonFatal ==
    \A u \in Sessions :
        (Idle(u) /\ outcome[u] = "greeting_fallback") =>
            /\ ChatHandle(u) # None
            /\ ContentText(u) # None
            /\ Selection(u) = subchapter_selector[u]
            /\ Selection(u) # PLATZHALTER_AUSWAHL
            /\ Len(Dialogue(u)) = 1
            /\ Dialogue(u)[1].role = "assistant"
            /\ Dialogue(u)[1].content.kind = "fallback"
            /\ Dialogue(u)[1].content.about = Selection(u)
            /\ ~prompt_disabled[u]

\* A load whose opening-turn request failed has ended.
C5_Witness ==
    \E u \in Sessions :
        /\ Idle(u)
        /\ outcome[u] = "greeting_fallback"
        /\ \E c \in gateway_calls : c.session = u /\ c.text = initial_user_message


\* C6: a submitted text grows the dialogue by exactly two entries. The run
\* starts with the dialogue untouched, appends the user's turn with the text,
\* and then appends one assistant turn: the reply when the call succeeded, the
\* error message when it failed; the run ends with the same handle, the same
\* selection and the chat input enabled.
C6_SendGrowsByTwo ==
    [][ \A u \in Sessions :
          Running(u) =>
            /\ (Idle(u) /\ user_prompt'[u] # None) =>
                  /\ pc'[u] = "chat_input"
                  /\ session_state'[u] = session_state[u]
            /\ (pc[u] = "chat_input" /\ user_prompt[u] # None /\ pc'[u] # pc[u]) =>
                  /\ pc'[u] = "send"
                  /\ Dialogue(u)' = Append(Dialogue(u),
                        [role |-> "user",
                         content |-> [kind |-> "text", about |-> << >>,
                                      text |-> user_prompt[u][1]]])
            /\ (pc[u] = "send" /\ pc'[u] # pc[u]) =>
                  /\ pc'[u] = "idle"
                  /\ Len(Dialogue(u)') = Len(Dialogue(u)) + 1
                  /\ IsPrefix(Dialogue(u), Dialogue(u)')
                  /\ Dialogue(u)'[Len(Dialogue(u)')].role = "assistant"
                  /\ outcome'[u] \in { "sent", "send_failed" }
                  /\ outcome'[u] = "sent" =>
                        /\ Dialogue(u)'[Len(Dialogue(u)')].content.kind = "reply"
                        /\ Dialogue(u)'[Len(Dialogue(u)')].content.text \in Replies
                  /\ outcome'[u] = "send_failed" =>
                        /\ Dialogue(u)'[Len(Dialogue(u)')].content.kind = "error"
                        /\ Dialogue(u)'[Len(Dialogue(u)')].content.text = GatewayError
                  /\ ChatHandle(u)' = ChatHandle(u)
                  /\ ChatHandle(u) # None
                  /\ Selection(u)' = Selection(u)
                  /\ Selection(u) # PLATZHALTER_AUSWAHL
                  /\ ~prompt_disabled'[u]
      ]_vars

\* A submitted text was answered by the gateway: opening turn, user turn, reply.
C6_Witness ==
    \E u \in Sessions :
        /\ Idle(u)
        /\ outcome[u] = "sent"
        /\ Len(Dialogue(u)) = 3
        /\ Dialogue(u)[2].role = "user"

\* C7: a submitted text never tears the session down. In every step of its
\* run, the gateway call failing or not, the selection, the content text, the
\* chat handle and the catalog stay as they are and the dialogue only grows at
\* its end; a step that drops dialogue turns or changes the handle is a step of
\* a selection change to a different label.
C7_SendKeepsSession ==
    [][ \A u \in Sessions :
          Running(u) =>
            /\ (user_prompt[u] # None \/ user_prompt'[u] # None) =>
                  /\ Selection(u)' = Selection(u)
                  /\ ContentText(u)' = ContentText(u)
                  /\ ChatHandle(u)' = ChatHandle(u)
                  /\ session_state'[u].subchapter_map = session_state[u].subchapter_map
                  /\ catalog_cache' = catalog_cache
                  /\ IsPrefix(Dialogue(u), Dialogue(u)')
            /\ (~IsPrefix(Dialogue(u), Dialogue(u)') \/ ChatHandle(u)' # ChatHandle(u)) =>
                  \/ /\ Idle(u)
                     /\ Selection(u)' # Selection(u)
                     /\ Selection(u)' = subchapter_selector'[u]
                  \/ pc[u] \in { "lookup", "fetch", "init", "start" }
      ]_vars

\* A submitted text failed at the gateway and the session is still active.
C7_Witness ==
    \E u \in Sessions :
        /\ Idle(u)
        /\ outcome[u] = "send_failed"
        /\ Len(Dialogue(u)) = 3
        /\ ChatHandle(u) # None
        /\ Selection(u) # PLATZHALTER_AUSWAHL

\* C8: texts are accepted only in an active session. Whenever a run ends with
\* the selection on the placeholder or without a chat handle, the chat input
\* is rendered disabled; a prompt is in a run, a user turn is appended and a
\* gateway call is made only while the selection is a label and a handle is held.
C8_SendOnlyInActive ==
    [][ \A u \in Sessions :
          Running(u)' =>
            /\ (Idle(u)' /\ (Selection(u)' = PLATZHALTER_AUSWAHL \/ ChatHandle(u)' = None)) =>
                  prompt_disabled'[u]
            /\ user_prompt'[u] # None =>
                  /\ Selection(u)' # PLATZHALTER_AUSWAHL
                  /\ ChatHandle(u)' # None
            /\ (Running(u) /\ Len(Dialogue(u)') > Len(Dialogue(u))
                  /\ Dialogue(u)'[Len(Dialogue(u)')].role = "user") =>
                  /\ Selection(u) # PLATZHALTER_AUSWAHL
                  /\ ChatHandle(u) # None
            /\ \A c \in gateway_calls' \ gateway_calls :
                  c.session = u =>
                      /\ Selection(u) # PLATZHALTER_AUSWAHL
                      /\ ChatHandle(u) # None
      ]_vars

\* A session that was active has failed a later load: it shows the chat input
\* disabled and holds no prompt.
C8_Witness ==
    \E u \in Sessions :
        /\ Idle(u)
        /\ outcome[u] \in LoadFailures
        /\ prompt_disabled[u]
        /\ \E c \in gateway_calls : c.session = u /\ c.text \in Prompts

Last(q) == q[Len(q)]

\* C9: at most one dialogue handle per session. The handle a session holds is
\* the one it opened last; a finished successful load holds one; start_chat is
\* reached with no handle held and returns a handle never returned before; and
\* every gateway call goes to the handle the session opened last.
C9_OneHandle ==
    /\ [](\A u \in Sessions :
            Running(u) =>
              /\ ChatHandle(u) # None =>
                    /\ opened[u] # << >>
                    /\ ChatHandle(u)[1].id = Last(opened[u])
              /\ (Idle(u) /\ outcome[u] \in { "loaded", "greeting_fallback" }) =>
                    ChatHandle(u) # None)
    /\ [][ \A u \in Sessions :
             /\ (Running(u) /\ ChatHandle(u)' # None /\ ChatHandle(u)' # ChatHandle(u)) =>
                   /\ ChatHandle(u) = None
                   /\ \A v \in Sessions : \A i \in 1..Len(opened[v]) :
                         opened[v][i] # ChatHandle(u)'[1].id
             /\ \A c \in gateway_calls' \ gateway_calls :
                   c.session = u =>
                       /\ opened[u] # << >>
                       /\ c.handle = Last(opened[u])
                       /\ c.handle = ChatHandle(u)[1].id
         ]_vars

\* A text was sent on the handle of the session's second successful load.
C9_Witness ==
    \E u \in Sessions :
        /\ Idle(u)
        /\ Len(opened[u]) >= 2
        /\ ChatHandle(u) # None
        /\ \E c \in gateway_calls :
              c.session = u /\ c.handle = opened[u][2] /\ c.text \in Prompts

\* The base name the parse law speaks of: the directory prefix and the ".txt"
\* suffix stripped.
BaseName(object_key) ==
    LET name == PathName(object_key)
    IN  IF EndsWith(name, DotTxt) THEN SubSeq(name, 1, Len(name) - Len(DotTxt)) ELSE name

ThreeNonEmptyFields(object_key) ==
    LET fields == Split(BaseName(object_key), "_")
    IN  Len(fields) = 3 /\ \A i \in 1..3 : fields[i] # << >>

\* C10: naming parse law. Once the catalog is built from a listing of one
\* ".txt" object, the catalog is the single entry mapping the third field to
\* the object key if the base name splits on '_' into exactly three non-empty
\* fields, and it is empty (the object was skipped) otherwise.
C10_ParseLaw ==
    (catalog_cache # None /\ Len(listing.pages) = 1 /\ Len(listing.pages[1]) = 1) =>
        LET object_key == listing.pages[1][1]
        IN  EndsWith(object_key, DotTxt) =>
                IF ThreeNonEmptyFields(object_key)
                THEN catalog_cache[1] =
                        << [k |-> Split(BaseName(object_key), "_")[3], v |-> object_key] >>
                ELSE catalog_cache[1] = << >>

\* The object keys of a listing in the order the backend returns them, all
\* pages one after the other.
RECURSIVE Flatten(_)
Flatten(pages) == IF pages = << >> THEN << >> ELSE Head(pages) \o Flatten(Tail(pages))

Built == catalog_cache # None
Catalog == catalog_cache[1]
StrictlyAscending(keys) == \A i \in 1..(Len(keys) - 1) : StrLess(keys[i], keys[i + 1])

\* C11: catalog ordering. Whatever the order and the page split of the
\* listing, the keys of the catalog the builder returned are strictly ascending
\* by code point, and so are the options every session's selectbox offers
\* after the placeholder.
C11_CatalogOrdering ==
    /\ Built => StrictlyAscending(DictKeys(Catalog))
    /\ \A u \in DOMAIN pc :
          Running(u) =>
              /\ Head(available_display_names(session_state[u])) = PLATZHALTER_AUSWAHL
              /\ StrictlyAscending(Tail(available_display_names(session_state[u])))

\* The catalog has two labels and the listing returned the greater label first.
C11_Witness ==
    /\ Built
    /\ listing.fail_at = 0
    /\ Len(Catalog) = 2
    /\ \E u \in DOMAIN pc : Running(u) /\ Len(available_display_names(session_state[u])) = 3
    /\ LET flat == Flatten(listing.pages)
       IN  \E i, j \in 1..Len(flat) :
              /\ i < j
              /\ HasExpectedFormat(flat[i]) /\ HasExpectedFormat(flat[j])
              /\ StrLess(DisplayName(flat[j]), DisplayName(flat[i]))

\* Every label of a listed object with the expected name format is mapped to
\* the object that comes last in listing order among those with that label,
\* and the catalog holds exactly one entry for the label.
LaterIdWins ==
    LET flat   == Flatten(listing.pages)
        labels == [i \in 1..Len(flat) |->
                      IF HasExpectedFormat(flat[i]) THEN Some(DisplayName(flat[i])) ELSE None]
    IN  \A i \in 1..Len(flat) :
            (labels[i] # None /\ \A m \in (i + 1)..Len(flat) : labels[m] # labels[i]) =>
                /\ Cardinality({ n \in 1..Len(Catalog) : Catalog[n].k = labels[i][1] }) = 1
                /\ \A n \in 1..Len(Catalog) :
                      Catalog[n].k = labels[i][1] => Catalog[n].v = flat[i]

\* The catalog and the count of listing calls stay as the builder left them.
CatalogKept == Built => UNCHANGED << catalog_cache, list_calls >>

\* C12: collision policy. The catalog the builder returns after a listing
\* without failure maps every label to the object listed last with that label,
\* on whatever pages the objects with that label arrived, and holds exactly one
\* entry for it: this holds of the catalog until the first content fetch, and
\* no step changes the catalog once it is built.
C12_CollisionPolicy ==
    /\ []((Built /\ listing.fail_at = 0 /\ fetch_calls = << >>) => LaterIdWins)
    /\ [][CatalogKept]_vars

\* Two distinct objects with the same label arrived on different pages and the
\* catalog maps the label to the one of the second page.
C12_Witness ==
    /\ Built
    /\ listing.fail_at = 0
    /\ Len(listing.pages) = 2
    /\ \E i \in 1..Len(listing.pages[1]), j \in 1..Len(listing.pages[2]) :
          LET first  == listing.pages[1][i]
              second == listing.pages[2][j]
          IN  /\ first # second
              /\ HasExpectedFormat(first) /\ HasExpectedFormat(second)
              /\ DisplayName(first) = DisplayName(second)
              /\ DictGet(Catalog, DisplayName(first)) = Some(second)

\* One call was made per page, the catalog is the one built from all pages
\* delivered as a single page, and the label of every listed object with the
\* expected name format is a key of the catalog.
SinglePageEquivalent ==
    LET flat == Flatten(listing.pages)
    IN  /\ list_calls = Len(listing.pages)
        /\ Catalog = get_available_subchapters_from_s3(
                         [pages |-> << flat >>, fail_at |-> 0]).map
        /\ \A i \in 1..Len(flat) :
              HasExpectedFormat(flat[i]) => DictHas(Catalog, DisplayName(flat[i]))

\* C13: pagination completeness. When the builder returns after a listing
\* without failure it has requested every page, one call per page, the catalog
\* equals the catalog built from the concatenation of all pages delivered as a
\* single page, and no object with the expected format of any page is missing:
\* this holds until the first content fetch, and no step changes the catalog
\* or lists again once the catalog is built.
C13_PaginationComplete ==
    /\ []((Built /\ listing.fail_at = 0 /\ fetch_calls = << >>) => SinglePageEquivalent)
    /\ [][Built => (catalog_cache' = catalog_cache /\ list_calls' = list_calls)]_vars

\* Both pages carried an object with the expected format, with different
\* labels, and two listing calls were made.
C13_Witness ==
    /\ Built
    /\ listing.fail_at = 0
    /\ Len(listing.pages) = 2
    /\ list_calls = 2
    /\ Len(Catalog) = 2
    /\ \E i \in 1..Len(listing.pages[1]), j \in 1..Len(listing.pages[2]) :
          /\ HasExpectedFormat(listing.pages[1][i])
          /\ HasExpectedFormat(listing.pages[2][j])
          /\ DisplayName(listing.pages[1][i]) # DisplayName(listing.pages[2][j])

\* C18: listing failure yields an empty catalog. When the call for one of the
\* pages fails, the builder reports the failure, has made no call after the
\* failing one, and the catalog is empty whatever the earlier pages held; every
\* session then offers only the placeholder, keeps the placeholder selected,
\* holds no content, model, chat session or dialogue turn, has its chat input
\* disabled and never starts a load.
C18_ListingFailure ==
    (Built /\ listing.fail_at # 0) =>
        /\ get_available_subchapters_from_s3(listing).failed
        /\ list_calls = listing.fail_at
        /\ Catalog = << >>
        /\ \A u \in DOMAIN pc :
              Running(u) =>
                  /\ Options(session_state[u]) = { PLATZHALTER_AUSWAHL }
                  /\ Selection(u) = PLATZHALTER_AUSWAHL
                  /\ Dialogue(u) = << >>
                  /\ ContentText(u) = None
                  /\ session_state[u].learnlm_model = None
                  /\ ChatHandle(u) = None
                  /\ prompt_disabled[u]
                  /\ pc[u] \in { "idle", "chat_input" }
                  /\ fetch_calls = << >>
                  /\ gateway_calls = {}

\* The call for the second page failed after the first page delivered an
\* object with the expected format, and the session ran the script again.
C18_Witness ==
    /\ Built
    /\ listing.fail_at = 2
    /\ \E i \in 1..Len(listing.pages[1]) : HasExpectedFormat(listing.pages[1][i])
    /\ list_calls = 2
    /\ \E u \in DOMAIN pc : pc[u] = "chat_input"

\* C14: idempotent placeholder selection. A session that is between user
\* actions with the placeholder selected is in the state a reset produces:
\* dialogue empty, content, model and chat session absent, chat input disabled.
\* A run in which the selectbox returns the placeholder then changes nothing of
\* the session state, resetting it again would change nothing either, and the
\* run ends between user actions with the chat input disabled, so any number of
\* such runs leave the state one of them leaves.
C14_PlaceholderIdempotent ==
    /\ [](\A u \in DOMAIN pc :
            (Idle(u) /\ Selection(u) = PLATZHALTER_AUSWAHL) =>
                /\ Dialogue(u) = << >>
                /\ ContentText(u) = None
                /\ session_state[u].learnlm_model = None
                /\ ChatHandle(u) = None
                /\ prompt_disabled[u]
                /\ reset_chat_state(session_state[u]) = session_state[u])
    /\ [][ \A u \in DOMAIN pc :
             /\ (Idle(u) /\ Selection(u) = PLATZHALTER_AUSWAHL /\ ~Idle(u)'
                   /\ subchapter_selector[u]' = PLATZHALTER_AUSWAHL) =>
                   /\ session_state[u]' = session_state[u]
                   /\ pc[u]' = "chat_input"
                   /\ user_prompt[u]' = None
             /\ (pc[u] = "chat_input" /\ Selection(u) = PLATZHALTER_AUSWAHL /\ pc[u]' # pc[u]) =>
                   /\ session_state[u]' = session_state[u]
                   /\ Idle(u)'
                   /\ prompt_disabled[u]'
         ]_vars

\* After a label had been loaded and the placeholder was selected, a further
\* run with the placeholder selected has finished.
C14_Witness ==
    \E u \in DOMAIN pc :
        /\ Idle(u)
        /\ Selection(u) = PLATZHALTER_AUSWAHL
        /\ subchapter_selector[u] = PLATZHALTER_AUSWAHL
        /\ outcome[u] = "unchanged"
        /\ opened[u] # << >>

\* C19: dialogue shape. Between user actions the dialogue is empty exactly
\* when the session holds no chat session; otherwise its length is odd, the
\* turns at odd positions are the assistant's and those at even positions the
\* user's, so the first and the last turn are the assistant's and no two
\* consecutive turns carry the same role.
C19_DialogueShape ==
    \A u \in DOMAIN pc :
        Idle(u) =>
            /\ (Dialogue(u) = << >>) <=> (ChatHandle(u) = None)
            /\ Dialogue(u) # << >> =>
                  /\ Len(Dialogue(u)) % 2 = 1
                  /\ \A i \in 1..Len(Dialogue(u)) :
                        Dialogue(u)[i].role = IF i % 2 = 1 THEN "assistant" ELSE "user"
                  /\ \A i \in 1..(Len(Dialogue(u)) - 1) :
                        Dialogue(u)[i].role # Dialogue(u)[i + 1].role
                  /\ Last(Dialogue(u)).role # "user"

\* A dialogue of the fallback greeting, an answered text and a text whose
\* send_message call failed.
C19_Witness ==
    \E u \in DOMAIN pc :
        /\ Idle(u)
        /\ Len(Dialogue(u)) = 5
        /\ Dialogue(u)[1].content.kind = "fallback"
        /\ Dialogue(u)[3].content.kind = "reply"
        /\ Dialogue(u)[5].content.kind = "error"

\* C20: selection, content and chat session agree. Between user actions, a
\* session that holds a chat session has selected a key of the catalog, its
\* content is the text fetched for the object the catalog maps that key to,
\* its model and the model of its chat session carry the system prompt made of
\* that label and that text, a fallback greeting in its dialogue names that
\* label, and the opening turn and every user turn of its dialogue were sent on
\* that chat session.
C20_SelectionContentHandle ==
    \A u \in DOMAIN pc :
        (Idle(u) /\ ChatHandle(u) # None) =>
            LET ss == session_state[u]
                object_key == DictGet(ss.subchapter_map, Selection(u))
            IN  /\ Selection(u) # PLATZHALTER_AUSWAHL
                /\ DictHas(Catalog, Selection(u))
                /\ object_key = DictGet(Catalog, Selection(u))
                /\ ContentText(u) # None
                /\ DictGet(content_cache, object_key[1]) = Some(ContentText(u))
                /\ ss.learnlm_model = Some(ChatHandle(u)[1].model)
                /\ ChatHandle(u)[1].model.system_instruction.label = Selection(u)
                /\ ChatHandle(u)[1].model.system_instruction.text = ContentText(u)[1]
                /\ \A i \in 1..Len(Dialogue(u)) :
                      /\ Dialogue(u)[i].content.kind = "fallback" =>
                            Dialogue(u)[i].content.about = Selection(u)
                      /\ Dialogue(u)[i].role = "user" =>
                            [session |-> u, handle |-> ChatHandle(u)[1].id, turn |-> i,
                             text |-> Dialogue(u)[i].content.text] \in gateway_calls
                /\ [session |-> u, handle |-> ChatHandle(u)[1].id, turn |-> 0,
                    text |-> initial_user_message] \in gateway_calls

\* The session holds its second chat session, for the label whose object was
\* fetched second, and a text was answered on it.
C20_Witness ==
    \E u \in DOMAIN pc :
        /\ Idle(u)
        /\ ChatHandle(u) # None
        /\ Len(opened[u]) = 2
        /\ Len(fetch_calls) = 2
        /\ DictGet(session_state[u].subchapter_map, Selection(u)) = Some(fetch_calls[2])
        /\ Len(Dialogue(u)) = 3

\* C15: the catalog is built once and only read afterwards. The bucket is
\* listed for one build only, however many sessions start; every session holds
\* the mapping of the cached catalog; and once the catalog is built no step,
\* of a selection change or of a submitted text, successful or failed, in any
\* session, changes the cached catalog, the count of listing calls or the
\* mapping a session holds.
C15_CatalogSnapshot ==
    /\ [](/\ list_calls <= Len(listing.pages)
          /\ (list_calls > 0) <=> Built
          /\ \A u \in DOMAIN pc :
                Running(u) => (Built /\ session_state[u].subchapter_map = Catalog))
    /\ [][ /\ Built => (catalog_cache' = catalog_cache /\ list_calls' = list_calls)
           /\ \A u \in DOMAIN pc :
                 Running(u) =>
                     session_state[u].subchapter_map' = session_state[u].subchapter_map
         ]_vars

\* Two sessions have started and loaded a label each and one of them has sent
\* a text, with a single listing call made.
C15_Witness ==
    /\ list_calls = 1
    /\ Len(Catalog) = 1
    /\ \A u \in DOMAIN pc : Idle(u) /\ ChatHandle(u) # None
    /\ \E u \in DOMAIN pc : Len(Dialogue(u)) = 3
    /\ \E u, v \in DOMAIN pc : u # v

\* The part of the state that belongs to session u.
OfSession(u) ==
    << pc[u], session_state[u], subchapter_selector[u], user_prompt[u],
       object_key_to_load[u], prompt_disabled[u], opened[u], outcome[u] >>

\* C17: session isolation. Whenever a step changes something of one session,
\* the selection, content, dialogue, model and chat session of every other
\* session, its widget values and its position in the script, stay as they
\* are; two sessions never hold the same chat session, and every
\* send_message call of a session goes to a chat session that session opened.
C17_SessionIsolation ==
    /\ [](/\ \A u, v \in DOMAIN pc :
                (u # v /\ Running(u) /\ Running(v)
                   /\ ChatHandle(u) # None /\ ChatHandle(v) # None) =>
                    ChatHandle(u)[1].id # ChatHandle(v)[1].id
          /\ \A c \in gateway_calls :
                \E i \in 1..Len(opened[c.session]) : opened[c.session][i] = c.handle)
    /\ [][ \A u, v \in DOMAIN pc :
             (u # v /\ OfSession(u)' # OfSession(u)) => OfSession(v)' = OfSession(v)
         ]_vars

\* Both sessions are between user actions, each holds a chat session of its
\* own with its opening turn, and one of them has sent a text since.
C17_Witness ==
    \E u, v \in DOMAIN pc :
        /\ u # v
        /\ Idle(u) /\ Idle(v)
        /\ ChatHandle(u) # None /\ ChatHandle(v) # None
        /\ ChatHandle(u)[1].id # ChatHandle(v)[1].id
        /\ Len(Dialogue(u)) = 3
        /\ Len(Dialogue(v)) = 1

\* The memoized outcome of the fetch of object_key: None while it has not been
\* fetched, else the returned value (a text, or the absent value after an error).
Memoized(object_key) == DictGet(content_cache, object_key)

\* C21: the content fetch is memoized per object key, failures included. No
\* object key is requested from the bucket twice, and the memoized keys are
\* the requested ones; a memoized outcome never changes; a load that reaches
\* the fetch of a key already memoized makes no request and goes on with the
\* memoized outcome, its text becoming the content of the session, or, when
\* the outcome is the absent value, the load ending in the failure branch; so
\* a load of a label whose object has the absent value memoized always ends
\* with the placeholder selected and no chat session.
C21_FetchMemoized ==
    /\ [](/\ \A i, j \in 1..Len(fetch_calls) : i # j => fetch_calls[i] # fetch_calls[j]
          /\ DictKeys(content_cache) = fetch_calls
          /\ \A u \in DOMAIN pc :
                (Idle(u) /\ object_key_to_load[u] # None
                   /\ outcome[u] \notin { "none", "unchanged", "placeholder", "lookup_failed" }
                   /\ Memoized(object_key_to_load[u][1]) = Some(None)) =>
                    /\ outcome[u] = "fetch_failed"
                    /\ Selection(u) = PLATZHALTER_AUSWAHL
                    /\ ChatHandle(u) = None
                    /\ Dialogue(u) = << >>)
    /\ [][ /\ IsPrefix(fetch_calls, fetch_calls')
           /\ IsPrefix(content_cache, content_cache')
           /\ \A u \in DOMAIN pc :
                 (pc[u] = "fetch" /\ pc[u]' # "fetch"
                    /\ Memoized(object_key_to_load[u][1]) # None) =>
                     LET content == Memoized(object_key_to_load[u][1])[1]
                     IN  /\ UNCHANGED << fetch_calls, content_cache >>
                         /\ content = None =>
                               /\ outcome[u]' = "fetch_failed"
                               /\ Selection(u)' = PLATZHALTER_AUSWAHL
                               /\ ChatHandle(u)' = None
                               /\ pc[u]' = "chat_input"
                         /\ TruthyText(content) =>
                               /\ ContentText(u)' = content
                               /\ pc[u]' = "init"
         ]_vars

\* The object fetched first returned the absent value; after another object
\* was fetched and loaded, a load of the first object's label has ended in the
\* failure branch with no further request.
C21_Witness ==
    \E u \in DOMAIN pc :
        /\ Idle(u)
        /\ outcome[u] = "fetch_failed"
        /\ Len(fetch_calls) = 2
        /\ Len(opened[u]) = 1
        /\ object_key_to_load[u] = Some(fetch_calls[1])
        /\ Memoized(fetch_calls[1]) = Some(None)

====
